---------------------------- MODULE Spec2Model ----------------------------
(***************************************************************************)
(* Model of the subtitle ingestion pipeline (get_subtitle.py) and of the   *)
(* search / context / replay-reference engine (playword.py).               *)
(*                                                                         *)
(* Representation choices                                                  *)
(*  - a Python str is a sequence of one-character strings;                 *)
(*  - a time in seconds (a float) is a fixed-point number with six         *)
(*    decimals: the integer v stands for v / 1000000 seconds, so that      *)
(*    Sec(n) is n seconds and MsToSeconds(ms) is ms / 1000.0 seconds;      *)
(*  - a Python dict is a function whose DOMAIN is the set of its keys.     *)
(***************************************************************************)
EXTENDS Integers, Sequences, FiniteSets, TLC

VARIABLES
    video_urls,   \* process_video_list: the submitted reference list
    max_workers,  \* process_video_list: width of the ThreadPoolExecutor
    task,         \* per submitted reference: the state of its process_single_video call
    files,        \* the "subtitles" output directory: file (video id, suffix) -> payload
    store,        \* the committed rows of table subtitles, in rowid order
    txn,          \* rows inserted by the connection holding the write lock, not yet committed
    lockHolder,   \* the task whose connection holds SQLite's write lock, or NoTask
    results,      \* process_video_list: the aggregate report being built
    query,        \* the search / advanced search / context call being served, with its result
    replay        \* a base reference and the replay reference built from it so far

vars == <<video_urls, max_workers, task, files, store, txn, lockHolder, results, query, replay>>

(***************************************************************************)
(* Strings                                                                 *)
(***************************************************************************)
Digits == <<"0", "1", "2", "3", "4", "5", "6", "7", "8", "9">>

IsDigit(c) == \E d \in 1..10 : Digits[d] = c

DigitValue(c) == (CHOOSE d \in 1..10 : Digits[d] = c) - 1

\* str(n) for n >= 0, as the f-string of create_timestamp_url formats it
RECURSIVE IntToStr(_)
IntToStr(n) ==
    IF n < 10 THEN <<Digits[n + 1]>>
    ELSE IntToStr(n \div 10) \o <<Digits[(n % 10) + 1]>>

\* the decimal value of a digit string
RECURSIVE StrToInt(_)
StrToInt(s) ==
    IF s = <<>> THEN 0
    ELSE 10 * StrToInt(SubSeq(s, 1, Len(s) - 1)) + DigitValue(s[Len(s)])

\* Python's `sub in s`
Contains(s, sub) ==
    \E i \in 1..(Len(s) - Len(sub) + 1) : SubSeq(s, i, i + Len(sub) - 1) = sub

\* sub occurs in s at position i
OccursAt(s, i, sub) ==
    /\ i >= 1
    /\ i + Len(sub) - 1 <= Len(s)
    /\ SubSeq(s, i, i + Len(sub) - 1) = sub

\* length of the longest run of digits of s starting at position i (\d+ is greedy)
RECURSIVE DigitRun(_, _)
DigitRun(s, i) ==
    IF i <= Len(s) /\ IsDigit(s[i]) THEN 1 + DigitRun(s, i + 1) ELSE 0

\* n seconds as a fixed-point time
Sec(n) == n * 1000000

\* ms // 1000: a division that drops the fraction of a second
MsToWholeSeconds(ms) == (ms \div 1000) * 1000000

\* ms / 1000.0: milliseconds as a fixed-point time in seconds
MsToSeconds(ms) == ms * 1000

(***************************************************************************)
(* Replay Reference Builder: SubtitleSearchPlayer.create_timestamp_url     *)
(***************************************************************************)
MarkerT == <<"t", "=">>
MarkerStart == <<"s", "t", "a", "r", "t", "=">>

\* length of the match of [&#]<name>\d+ at position i of s, 0 when there is none
ReMatchLen(s, i, name) ==
    IF /\ i <= Len(s)
       /\ s[i] \in {"&", "#"}
       /\ OccursAt(s, i + 1, name)
       /\ DigitRun(s, i + 1 + Len(name)) > 0
    THEN 1 + Len(name) + DigitRun(s, i + 1 + Len(name))
    ELSE 0

\* re.sub(r'[&#]<name>\d+', '', s): every non-overlapping match, left to right
RECURSIVE ReSubFrom(_, _, _)
ReSubFrom(s, i, name) ==
    IF i > Len(s) THEN <<>>
    ELSE IF ReMatchLen(s, i, name) > 0
         THEN ReSubFrom(s, i + ReMatchLen(s, i, name), name)
         ELSE <<s[i]>> \o ReSubFrom(s, i + 1, name)

ReSub(s, name) == ReSubFrom(s, 1, name)

\* int(start_time): truncation of the seconds value (start_time >= 0)
IntOfTime(start_time) == start_time \div 1000000

\* lines 103-106: the old marker is stripped only when 't=' occurs in the reference
StripOldMarker(video_url) ==
    IF Contains(video_url, MarkerT) \/ Contains(video_url, <<"#">> \o MarkerT)
    THEN ReSub(ReSub(video_url, MarkerT), MarkerStart)
    ELSE video_url

create_timestamp_url(video_url, start_time) ==
    LET start_seconds == IntOfTime(start_time)
        stripped == StripOldMarker(video_url)
        separator == IF Contains(stripped, <<"?">>) THEN <<"&">> ELSE <<"?">>
    IN  stripped \o separator \o MarkerT \o IntToStr(start_seconds) \o <<"s">>


(***************************************************************************)
(* Characters: classes, byte order, ASCII case folding                     *)
(***************************************************************************)
LowerSeq == <<"a", "b", "c", "d", "e", "f", "g", "h", "i", "j", "k", "l", "m",
              "n", "o", "p", "q", "r", "s", "t", "u", "v", "w", "x", "y", "z">>

UpperSeq == <<"A", "B", "C", "D", "E", "F", "G", "H", "I", "J", "K", "L", "M",
              "N", "O", "P", "Q", "R", "S", "T", "U", "V", "W", "X", "Y", "Z">>

SeqRange(s) == {s[i] : i \in 1..Len(s)}

\* the character class [0-9A-Za-z_-] of the video id patterns
IdChars == SeqRange(Digits) \cup SeqRange(UpperSeq) \cup SeqRange(LowerSeq) \cup {"_", "-"}

\* the characters of a video id in byte order (SQLite's BINARY collation is memcmp)
ByteOrder == <<"-">> \o Digits \o UpperSeq \o <<"_">> \o LowerSeq

ByteRank(c) == CHOOSE i \in 1..Len(ByteOrder) : ByteOrder[i] = c

\* a < b bytewise, for strings over IdChars
RECURSIVE StrLess(_, _)
StrLess(a, b) ==
    IF b = <<>> THEN FALSE
    ELSE IF a = <<>> THEN TRUE
    ELSE IF a[1] = b[1] THEN StrLess(Tail(a), Tail(b))
    ELSE ByteRank(a[1]) < ByteRank(b[1])

\* SQLite's LIKE folds the case of the 26 ASCII letters only
FoldCase(c) ==
    IF \E i \in 1..26 : UpperSeq[i] = c
    THEN LowerSeq[CHOOSE i \in 1..26 : UpperSeq[i] = c]
    ELSE c

\* text LIKE pattern, SQLite's default: '%' any run, '_' any one character, no escape,
\* ASCII letters compared without case
RECURSIVE LikeMatch(_, _)
LikeMatch(pattern, text) ==
    IF pattern = <<>> THEN text = <<>>
    ELSE IF pattern[1] = "%"
         THEN \E k \in 0..Len(text) :
                 LikeMatch(Tail(pattern), SubSeq(text, k + 1, Len(text)))
    ELSE IF text = <<>> THEN FALSE
    ELSE IF pattern[1] = "_" THEN LikeMatch(Tail(pattern), Tail(text))
    ELSE /\ FoldCase(pattern[1]) = FoldCase(text[1])
         /\ LikeMatch(Tail(pattern), Tail(text))

\* f'%{search_word}%'
LikePattern(search_word) == <<"%">> \o search_word \o <<"%">>

Whitespace == {" ", "\n", "\t"}

\* a text taken as it is
NoStrip(s) == s

\* str.strip()
RECURSIVE Strip(_)
Strip(s) ==
    IF s = <<>> THEN s
    ELSE IF s[1] \in Whitespace THEN Strip(Tail(s))
    ELSE IF s[Len(s)] \in Whitespace THEN Strip(SubSeq(s, 1, Len(s) - 1))
    ELSE s

(***************************************************************************)
(* Reference Parser: YouTubeSubtitleDownloader.extract_video_id            *)
(***************************************************************************)
IdLen == 11

\* returned where the code raises ValueError
NoVideoId == <<>>

\* the IdLen characters after position i are all in the id class
IdAt(url, i) ==
    /\ i + IdLen <= Len(url)
    /\ \A k \in (i + 1)..(i + IdLen) : url[k] \in IdChars

\* re.search(prefix-alternatives + '([0-9A-Za-z_-]{11})', url): group 1 of the
\* leftmost match, NoVideoId when there is none
PatternSearch(url, prefixes) ==
    LET hits == {i \in 1..Len(url) :
                    \E p \in prefixes : OccursAt(url, i, p) /\ IdAt(url, i + Len(p) - 1)}
    IN  IF hits = {} THEN NoVideoId
        ELSE LET i == CHOOSE h \in hits : \A g \in hits : h <= g
                 p == CHOOSE q \in prefixes : OccursAt(url, i, q) /\ IdAt(url, i + Len(q) - 1)
             IN  SubSeq(url, i + Len(p), i + Len(p) + IdLen - 1)

IdPatterns == <<
    {<<"v", "=">>, <<"/">>},
    {<<"e", "m", "b", "e", "d", "/">>},
    {<<"v", "/">>} >>

RECURSIVE ExtractFrom(_, _)
ExtractFrom(url, n) ==
    IF n > Len(IdPatterns) THEN NoVideoId
    ELSE IF PatternSearch(url, IdPatterns[n]) # NoVideoId
         THEN PatternSearch(url, IdPatterns[n])
         ELSE ExtractFrom(url, n + 1)

\* an extraction that never raises: it takes the last IdLen characters of the reference
ExtractTail(url) == SubSeq(url, Len(url) - IdLen + 1, Len(url))

extract_video_id(url) == ExtractFrom(url, 1)

(***************************************************************************)
(* Record Store: table subtitles (setup_database) and its queries          *)
(***************************************************************************)
\* one row of table subtitles; the rowid is the row's position in the store
Row(video_id, video_url, japanese_text, start_time, duration, sequence_number) ==
    [video_id |-> video_id, video_url |-> video_url, japanese_text |-> japanese_text,
     start_time |-> start_time, end_time |-> start_time + duration,
     duration |-> duration, sequence_number |-> sequence_number]

\* UNIQUE(video_id, start_time, japanese_text)
UniqueKey(r) == <<r.video_id, r.start_time, r.japanese_text>>

\* the constraint holds of a sequence of rows
UniqueRows(rows) ==
    \A i, j \in 1..Len(rows) : UniqueKey(rows[i]) = UniqueKey(rows[j]) => i = j

\* a count that finds no row
CountNothing(rows, video_id) == 0

\* a count that marks a video as soon as a call for it has returned, whatever its outcome
CountReturnedCalls(rows, video_id) ==
    Cardinality({j \in DOMAIN task :
                    task[j].video_id = video_id /\ task[j].pc \in {"done", "collected"}})

\* SELECT COUNT(*) FROM subtitles WHERE video_id = ?
CountForVideo(rows, video_id) ==
    Cardinality({i \in 1..Len(rows) : rows[i].video_id = video_id})

\* ORDER BY video_id, start_time: row a sorts strictly before row b
BeforeVideoStart(a, b) ==
    IF a.video_id = b.video_id THEN a.start_time < b.start_time
    ELSE StrLess(a.video_id, b.video_id)

\* ORDER BY start_time
BeforeStart(a, b) == a.start_time < b.start_time

Before(order, a, b) ==
    IF order = "video_id, start_time" THEN BeforeVideoStart(a, b) ELSE BeforeStart(a, b)

\* no sorting: the rows in rowid order
RECURSIVE OrderByRowid(_, _, _)
OrderByRowid(rows, ids, order) ==
    IF ids = {} THEN {<<>>}
    ELSE LET i == CHOOSE k \in ids : \A j \in ids : k <= j
         IN  {<<rows[i]>> \o rest : rest \in OrderByRowid(rows, ids \ {i}, order)}

\* every sequence the ORDER BY may produce for the rows whose rowids are in ids: SQL
\* leaves the order of rows with equal sort keys open (an index scan and a sorter
\* differ on it)
RECURSIVE OrderBy(_, _, _)
OrderBy(rows, ids, order) ==
    IF ids = {} THEN {<<>>}
    ELSE LET firsts == {i \in ids : \A j \in ids : ~Before(order, rows[j], rows[i])}
         IN  UNION {{<<rows[i]>> \o rest : rest \in OrderBy(rows, ids \ {i}, order)} :
                    i \in firsts}

\* LIMIT n: a negative n is no limit
Limit(s, n) == IF n < 0 \/ n >= Len(s) THEN s ELSE SubSeq(s, 1, n)

(***************************************************************************)
(* Search Engine: search_word_in_subtitles, advanced_search                *)
(***************************************************************************)
DefaultLimit == 20
AdvancedLimit == 50

\* lines 79-92 and 283-296: the result dict built for one fetched row
ResultOf(r) ==
    [video_id |-> r.video_id, video_url |-> r.video_url,
     japanese_text |-> r.japanese_text, start_time |-> r.start_time,
     end_time |-> r.end_time, duration |-> r.duration,
     sequence_number |-> r.sequence_number,
     timestamp_url |-> create_timestamp_url(r.video_url, r.start_time)]

ResultsOf(fetched) == [i \in 1..Len(fetched) |-> ResultOf(fetched[i])]

\* the WHERE clause of search_word_in_subtitles
SearchWhere(r, search_word, exact_match) ==
    IF exact_match THEN r.japanese_text = search_word
    ELSE LikeMatch(LikePattern(search_word), r.japanese_text)

\* every list search_word_in_subtitles may return on the rows
search_word_in_subtitles(rows, search_word, exact_match, limit) ==
    LET ids == {i \in 1..Len(rows) : SearchWhere(rows[i], search_word, exact_match)}
    IN  {ResultsOf(Limit(fetched, limit)) : fetched \in OrderBy(rows, ids, "video_id, start_time")}

\* filters.get(key) is truthy: the key is present and its value is not 0, [] or False
Truthy(filters, key) ==
    /\ key \in DOMAIN filters
    /\ filters[key] # (CASE key = "video_ids" -> <<>>
                         [] key = "exclude_short" -> FALSE
                         [] OTHER -> 0)

\* the conditions advanced_search appends to its WHERE clause
AdvancedWhere(r, search_term, filters) ==
    /\ LikeMatch(LikePattern(search_term), r.japanese_text)
    /\ Truthy(filters, "min_duration") => r.duration >= filters["min_duration"]
    /\ Truthy(filters, "max_duration") => r.duration <= filters["max_duration"]
    /\ Truthy(filters, "video_ids") =>
           \E k \in 1..Len(filters["video_ids"]) : filters["video_ids"][k] = r.video_id
    /\ Truthy(filters, "exclude_short") => Len(r.japanese_text) > 5

\* every list advanced_search may return on the rows
advanced_search(rows, search_term, filters) ==
    LET ids == {i \in 1..Len(rows) : AdvancedWhere(rows[i], search_term, filters)}
    IN  {ResultsOf(Limit(fetched, AdvancedLimit)) :
            fetched \in OrderBy(rows, ids, "video_id, start_time")}

(***************************************************************************)
(* Context Resolver: get_video_context                                     *)
(***************************************************************************)
Abs(x) == IF x < 0 THEN -x ELSE x

\* a target test that takes in the distance of exactly 1.0
IsTargetInclusive(start_time, target_time) == Abs(start_time - target_time) <= Sec(1)

\* line 191: abs(start_time - target_time) < 1.0
IsTarget(start_time, target_time) == Abs(start_time - target_time) < Sec(1)

\* a window that is open at its lower end
ContextWhereOpen(r, video_id, target_time, context_seconds) ==
    /\ r.video_id = video_id
    /\ target_time - Sec(context_seconds) < r.start_time
    /\ r.start_time <= target_time + Sec(context_seconds)

\* lines 170-181: video_id = ? AND start_time BETWEEN ? AND ?
ContextWhere(r, video_id, target_time, context_seconds) ==
    /\ r.video_id = video_id
    /\ target_time - Sec(context_seconds) <= r.start_time
    /\ r.start_time <= target_time + Sec(context_seconds)

ContextItem(r, target_time) ==
    [text |-> r.japanese_text, start_time |-> r.start_time, end_time |-> r.end_time,
     sequence_number |-> r.sequence_number,
     is_target |-> IsTarget(r.start_time, target_time)]

\* every list get_video_context may return on the rows
get_video_context(rows, video_id, target_time, context_seconds) ==
    LET ids == {i \in 1..Len(rows) :
                   ContextWhere(rows[i], video_id, target_time, context_seconds)}
    IN  {[i \in 1..Len(fetched) |-> ContextItem(fetched[i], target_time)] :
            fetched \in OrderBy(rows, ids, "start_time")}

(***************************************************************************)
(* Inputs of the ingestion model: references, videos and their tracks      *)
(***************************************************************************)
Rep(c, n) == [i \in 1..n |-> c]

IdA == Rep("A", IdLen)
IdB == Rep("B", IdLen)

WatchPrefix == <<"y", "t", ".", "c", "o", "m", "/", "w", "a", "t", "c", "h", "?", "v", "=">>
ShortPrefix == <<"y", "o", "u", "t", "u", ".", "b", "e", "/">>

RefWatchA == WatchPrefix \o IdA
RefShortA == ShortPrefix \o IdA
RefWatchB == WatchPrefix \o IdB
\* a channel page: no pattern finds a video id in it
RefBad == <<"y", "t", ".", "c", "o", "m", "/", "u", "s", "e", "r">>

References == {RefWatchA, RefShortA, RefWatchB, RefBad}

\* the json3 track of video A: a caption at 0 s without a start offset, a whitespace-only
\* event at 2 s, a caption in two segments at 5 s without a duration
TrackA == <<
    [dDurationMs |-> 2000, segs |-> <<[utf8 |-> <<"k", "a">>]>>],
    [tStartMs |-> 2000, dDurationMs |-> 1000, segs |-> <<[utf8 |-> <<" ", " ">>]>>],
    [tStartMs |-> 5000,
     segs |-> <<[utf8 |-> <<" ", "s">>], [utf8 |-> <<"A", "\n">>]>>] >>

\* the json3 track of video B: a caption, an event without segments, the same caption
\* again without a duration
TrackB == <<
    [tStartMs |-> 1500, dDurationMs |-> 2500, segs |-> <<[utf8 |-> <<"b">>]>>],
    [tStartMs |-> 4000, dDurationMs |-> 1000],
    [tStartMs |-> 1500, segs |-> <<[utf8 |-> <<"b">>]>>] >>

\* what the track fetcher writes for a video: data['events'] of its json3 file
TrackOf(video_id) == IF video_id = IdA THEN TrackA ELSE TrackB

\* parse_subtitle_file, lines 126-129: the candidate files, in the order they are tried
SubtitleSuffixes == <<"ja", "ja-orig">>

(***************************************************************************)
(* Track Normalizer: the body of the event loop of parse_subtitle_file     *)
(***************************************************************************)
\* dict.get(key, default)
Get(d, key, default) == IF key \in DOMAIN d THEN d[key] ELSE default

\* ''.join([seg.get('utf8', '') for seg in event['segs']])
RECURSIVE JoinSegs(_)
JoinSegs(segs) ==
    IF segs = <<>> THEN <<>>
    ELSE Get(segs[1], "utf8", <<>>) \o JoinSegs(Tail(segs))

\* lines 144-147: the stripped text of an event, empty when it has no segments
EventText(event) ==
    IF "segs" \in DOMAIN event THEN Strip(JoinSegs(event["segs"])) ELSE <<>>

\* a row numbered by the 1-based position of its event
EventRowFromOne(video_id, video_url, event, i) ==
    Row(video_id, video_url, EventText(event),
        MsToSeconds(Get(event, "tStartMs", 0)),
        MsToSeconds(Get(event, "dDurationMs", 0)), i + 1)

\* lines 150-159: the row built for event number i (0-based) of a track
EventRow(video_id, video_url, event, i) ==
    Row(video_id, video_url, EventText(event),
        MsToSeconds(Get(event, "tStartMs", 0)),
        MsToSeconds(Get(event, "dDurationMs", 0)), i)

(***************************************************************************)
(* Ingestion Coordinator and Batch Scheduler: process_single_video run by  *)
(* the pool of process_video_list                                          *)
(***************************************************************************)
MaxUrls == 2
MaxWorkers == 2

NoTask == 0
Tasks == 1..Len(video_urls)

\* a submitted call that has not started
QueuedTask ==
    [pc |-> "queued", video_id |-> NoVideoId, fileIdx |-> 1, i |-> 0, inserted |-> 0,
     outcome |-> <<>>,
     \* history, read by the properties only: the calls of download_subtitle, what the
     \* fetcher wrote, the INSERTs that raised, the run of the batch the call belongs to,
     \* whether the run before was killed inside the INSERT loop of this reference
     fetches |-> 0, written |-> "", errors |-> 0, run |-> 1, cut |-> FALSE]

\* a pool that counts no thread as busy
RunningNone == {}

\* line 253: ThreadPoolExecutor(max_workers=max_workers) runs one work item per thread;
\* the work items its threads are running
Running == {j \in Tasks : task[j].pc \notin {"queued", "done", "collected"}}

\* a call without the except clause of line 230: the exception leaves the call and its
\* future never delivers an outcome
ReturnOrRaise(t, outcome) ==
    IF outcome.status = "error" THEN [t EXCEPT !.pc = "raised"]
    ELSE [t EXCEPT !.pc = "done", !.outcome = outcome]

\* a call that fetches a second time when the first fetch failed
ReturnAndRetry(t, outcome) ==
    IF outcome.status = "failed" /\ t.fetches < 2 THEN [t EXCEPT !.pc = "download"]
    ELSE [t EXCEPT !.pc = "done", !.outcome = outcome]

\* a call that goes on to parse_subtitle_file although its fetch failed
ReturnAndParse(t, outcome) ==
    IF outcome.status = "failed" THEN [t EXCEPT !.pc = "parse"]
    ELSE [t EXCEPT !.pc = "done", !.outcome = outcome]

\* the return of process_single_video
Return(t, outcome) == [t EXCEPT !.pc = "done", !.outcome = outcome]

Outcome(video_id, url, status, subtitle_count) ==
    [video_id |-> video_id, url |-> url, status |-> status, subtitle_count |-> subtitle_count]

\* lines 230-238: the outcome built by the except clause
ErrorOutcome(url) ==
    [video_id |-> <<"u", "n", "k", "n", "o", "w", "n">>, url |-> url, status |-> "error",
     error |-> "ValueError", subtitle_count |-> 0]

\* A pool thread takes the next work item (the executor's queue is FIFO) and runs
\* process_single_video up to the download: lines 187-205
Check(j) ==
    /\ task[j].pc = "queued"
    /\ \A k \in Tasks : k < j => task[k].pc # "queued"
    /\ Cardinality(Running) < max_workers
    /\ LET url == video_urls[j]
           video_id == extract_video_id(url)
           existing_count == CountForVideo(store, video_id)
           t == [task[j] EXCEPT !.video_id = video_id]
       IN  task' = [task EXCEPT ![j] =
                IF video_id = NoVideoId THEN Return(t, ErrorOutcome(url))
                ELSE IF existing_count > 0
                     THEN Return(t, Outcome(video_id, url, "skipped", existing_count))
                     ELSE [t EXCEPT !.pc = "download"]]
    /\ UNCHANGED <<video_urls, max_workers, files, store, txn, lockHolder, results, query, replay>>

\* a fetcher that clears the output directory when it fails
FetchedFilesCleared(fs, video_id, written) ==
    IF written \in {"ja", "ja-orig"} THEN fs \cup {<<video_id, written>>}
    ELSE IF written = "failed" THEN {}
    ELSE fs

\* lines 101-112: what yt-dlp leaves in the output directory, '-o {output_dir}/%(id)s.%(ext)s':
\* a file named after the video it was called for, nothing when it fails
FetchedFiles(fs, video_id, written) ==
    IF written \in {"ja", "ja-orig"} THEN fs \cup {<<video_id, written>>} ELSE fs

\* download_subtitle, lines 92-122: the track fetcher fails (non-zero return code,
\* timeout, exception), or succeeds having written no file, the authored track or the
\* auto-generated one; on failure process_single_video returns at lines 222-228
Download(j) ==
    /\ task[j].pc = "download"
    /\ \E written \in {"failed", "none", "ja", "ja-orig"} :
          LET t == [task[j] EXCEPT !.fetches = @ + 1, !.written = written]
          IN  /\ files' = FetchedFiles(files, t.video_id, written)
              /\ task' = [task EXCEPT ![j] =
                    IF written = "failed"
                    THEN Return(t, Outcome(t.video_id, video_urls[j], "failed", 0))
                    ELSE [t EXCEPT !.pc = "parse", !.fileIdx = 1]]
    /\ UNCHANGED <<video_urls, max_workers, store, txn, lockHolder, results, query, replay>>

\* lines 214-220: the outcome after parse_subtitle_file returned subtitle_count
Parsed(j, t, subtitle_count) ==
    Return(t, Outcome(t.video_id, video_urls[j],
                         IF subtitle_count > 0 THEN "success" ELSE "no_subtitles",
                         subtitle_count))

\* a loop that passes over no event: every event is handed to the INSERT
NextEvent(events, i) == i

\* lines 143-149: the 0-based index of the first event from index i on that has text,
\* the length of the track when there is none; the loop passes over the others
RECURSIVE NextText(_, _)
NextText(events, i) ==
    IF i >= Len(events) \/ EventText(events[i + 1]) # <<>> THEN i
    ELSE NextText(events, i + 1)

\* parse_subtitle_file, lines 131-141 and 180-181: one turn of the loop over the
\* candidate files; an existing file is loaded and a connection opened
ParseOpen(j) ==
    /\ task[j].pc = "parse"
    /\ LET t == task[j]
       IN  task' = [task EXCEPT ![j] =
                IF t.fileIdx > Len(SubtitleSuffixes) THEN Parsed(j, t, 0)
                ELSE IF <<t.video_id, SubtitleSuffixes[t.fileIdx]>> \in files
                     THEN [t EXCEPT !.pc = "insert", !.inserted = 0,
                                    !.i = NextText(TrackOf(t.video_id), 0)]
                     ELSE [t EXCEPT !.fileIdx = @ + 1]]
    /\ UNCHANGED <<video_urls, max_workers, files, store, txn, lockHolder, results, query, replay>>

\* a plain INSERT: the row is always added
InsertAlways(rows, row) == 1

\* INSERT OR IGNORE, lines 155-162, on a connection that sees rows: cursor.rowcount,
\* 1 when the row is added, 0 when a row with its key is there and the row is dropped
InsertOrIgnore(rows, row) ==
    IF \E k \in 1..Len(rows) : UniqueKey(rows[k]) = UniqueKey(row) THEN 0 ELSE 1

\* an error that ends the loop over the events: no further event is attempted
InsertRaisedAborts(t, next) ==
    [t EXCEPT !.i = Len(TrackOf(t.video_id)), !.errors = @ + 1]

\* lines 164-165: sqlite3.Error is caught inside the loop and printed; the loop goes on
\* with the next event and inserted_count is not incremented
InsertRaised(t, next) == [t EXCEPT !.i = next, !.errors = @ + 1]

\* parse_subtitle_file, lines 143-165: the INSERT of the next event that has text. It
\* takes SQLite's write lock, which the connection keeps until its commit; while another
\* connection holds it the INSERT either waits or gives up at the busy timeout with
\* sqlite3.OperationalError, which line 164 catches.
Insert(j) ==
    /\ task[j].pc = "insert"
    /\ task[j].i < Len(TrackOf(task[j].video_id))
    /\ LET t == task[j]
           event == TrackOf(t.video_id)[t.i + 1]
           row == EventRow(t.video_id, video_urls[j], event, t.i)
           rowcount == InsertOrIgnore(store \o txn, row)
           next == NextText(TrackOf(t.video_id), t.i + 1)
       IN  IF lockHolder \in {NoTask, j}
           THEN /\ lockHolder' = j
                /\ txn' = IF rowcount > 0 THEN Append(txn, row) ELSE txn
                /\ task' = [task EXCEPT ![j].i = next, ![j].inserted = @ + rowcount]
           ELSE /\ task' = [task EXCEPT ![j] = InsertRaised(task[j], next)]
                /\ UNCHANGED <<txn, lockHolder>>
    /\ UNCHANGED <<video_urls, max_workers, files, store, results, query, replay>>

\* a commit that leaves the table with the rows of the transaction only
CommittedReplacing(rows, pending) == pending

\* line 167: conn.commit() makes the rows the connection inserted part of the table,
\* after the rows that are there
Committed(rows, pending) == rows \o pending

\* lines 167-168: conn.commit() and conn.close() after the last event
Commit(j) ==
    /\ task[j].pc = "insert"
    /\ task[j].i = Len(TrackOf(task[j].video_id))
    /\ IF lockHolder = j
       THEN store' = Committed(store, txn) /\ txn' = <<>> /\ lockHolder' = NoTask
       ELSE UNCHANGED <<store, txn, lockHolder>>
    /\ task' = [task EXCEPT ![j].pc = "remove"]
    /\ UNCHANGED <<video_urls, max_workers, files, results, query, replay>>

\* lines 170-178: os.remove(subtitle_file) and the return of the count; when the file is
\* gone os.remove raises, the except clause of line 176 catches it and the loop goes on
\* to the next candidate file
Remove(j) ==
    /\ task[j].pc = "remove"
    /\ LET t == task[j]
           file == <<t.video_id, SubtitleSuffixes[t.fileIdx]>>
       IN  IF file \in files
           THEN /\ files' = files \ {file}
                /\ task' = [task EXCEPT ![j] = Parsed(j, t, t.inserted)]
           ELSE /\ files' = files
                /\ task' = [task EXCEPT ![j] = [t EXCEPT !.pc = "parse", !.fileIdx = @ + 1]]
    /\ UNCHANGED <<video_urls, max_workers, store, txn, lockHolder, query, replay, results>>

\* lines 244-251
EmptyResults ==
    [success |-> 0, failed |-> 0, skipped |-> 0, no_subtitles |-> 0,
     total_subtitles |-> 0, details |-> <<>>]

\* an aggregation that has no branch for the status 'error'
AggregateWithoutError(r, result) ==
    LET status == result.status
        d == [r EXCEPT !.details = Append(@, result)]
    IN  IF status = "success"
        THEN [d EXCEPT !.success = @ + 1, !.total_subtitles = @ + result.subtitle_count]
        ELSE IF status = "failed"
        THEN [d EXCEPT !.failed = @ + 1]
        ELSE IF status = "skipped"
        THEN [d EXCEPT !.skipped = @ + 1, !.total_subtitles = @ + result.subtitle_count]
        ELSE IF status = "no_subtitles"
        THEN [d EXCEPT !.no_subtitles = @ + 1]
        ELSE d

\* lines 260-273: one completed future is added to the report
Aggregate(r, result) ==
    LET status == result.status
        d == [r EXCEPT !.details = Append(@, result)]
    IN  IF status = "success"
        THEN [d EXCEPT !.success = @ + 1, !.total_subtitles = @ + result.subtitle_count]
        ELSE IF status = "failed" \/ status = "error"
        THEN [d EXCEPT !.failed = @ + 1]
        ELSE IF status = "skipped"
        THEN [d EXCEPT !.skipped = @ + 1, !.total_subtitles = @ + result.subtitle_count]
        ELSE IF status = "no_subtitles"
        THEN [d EXCEPT !.no_subtitles = @ + 1]
        ELSE d

\* lines 259-261: as_completed hands over any future that is done
Collect(j) ==
    /\ task[j].pc = "done"
    /\ results' = Aggregate(results, task[j].outcome)
    /\ task' = [task EXCEPT ![j].pc = "collected"]
    /\ UNCHANGED <<video_urls, max_workers, files, store, txn, lockHolder, query, replay>>

\* process_video_list has returned its report
BatchDone == \A j \in Tasks : task[j].pc = "collected"

NoQuery == [op |-> "none"]
NoReplay == [base |-> <<>>, url |-> <<>>, times |-> <<>>]

\* the state before process_video_list is called on an empty database
Init ==
    /\ video_urls \in UNION {[1..n -> References] : n \in 0..MaxUrls}
    /\ max_workers \in 1..MaxWorkers
    /\ task = [j \in 1..Len(video_urls) |-> QueuedTask]
    /\ files = {}
    /\ store = <<>>
    /\ txn = <<>>
    /\ lockHolder = NoTask
    /\ results = EmptyResults
    /\ query = NoQuery
    /\ replay = NoReplay

Next ==
    \/ \E j \in Tasks : Check(j)
    \/ \E j \in Tasks : Download(j)
    \/ \E j \in Tasks : ParseOpen(j)
    \/ \E j \in Tasks : Insert(j)
    \/ \E j \in Tasks : Commit(j)
    \/ \E j \in Tasks : Remove(j)
    \/ \E j \in Tasks : Collect(j)

Spec == Init /\ [][Next]_vars

(***************************************************************************)
(* The query side: a database filled by earlier runs, searched by          *)
(* SubtitleSearchPlayer                                                    *)
(***************************************************************************)
MaxRows == 3

\* no batch is running
NoBatch ==
    /\ video_urls = <<>>
    /\ max_workers = 1
    /\ task = <<>>
    /\ files = {}
    /\ txn = <<>>
    /\ lockHolder = NoTask
    /\ results = EmptyResults

\* every database of at most n rows taken from a set of rows, in every insertion order
Databases(rowSet, n) ==
    {rows \in UNION {[1..k -> rowSet] : k \in 0..n} : UniqueRows(rows)}

\* rows of two videos: texts that differ in case only, texts with and without '_', two
\* rows with equal (video_id, start_time), a duration of 0, a text longer than 5
SearchRows == {
    Row(IdB, RefWatchB, <<"k", "a">>, Sec(5), Sec(2), 0),
    Row(IdA, RefWatchA, <<"K", "A">>, Sec(5), 0, 3),
    Row(IdA, RefWatchA, <<"a", "_", "b">>, Sec(1), Sec(2), 1),
    Row(IdA, RefShortA, <<"a", "x", "b">>, Sec(1), Sec(5), 1),
    Row(IdB, RefWatchB, <<"1", "0", "0">>, 0, Sec(5), 0),
    Row(IdA, RefWatchA, <<"k", "a", "k", "a", "k", "a">>, MsToSeconds(7500), Sec(2), 4) }

\* a database of AdvancedLimit + 1 rows that all contain "z", stored latest first
BigDatabase ==
    [k \in 1..(AdvancedLimit + 1) |->
        Row(IdB, RefWatchB, <<"z", "z">>, Sec(AdvancedLimit + 1 - k), Sec(1),
            AdvancedLimit + 1 - k)]

SearchWords == {<<"k", "a">>, <<"a">>, <<"_">>, <<"0", "%">>, <<"x">>, <<"z">>}

\* limit=20 is the default; the callers pass 15 and 5; 0, 1 and 2 cut a small database
SearchLimits == {0, 1, 2, DefaultLimit}

\* a dict of the keys whose value is given: each argument is <<>> (the key is left
\* out) or <<value>>
FilterDict(min_duration, max_duration, video_ids, exclude_short) ==
    LET given == {k \in {"min_duration", "max_duration", "video_ids", "exclude_short"} :
                    CASE k = "min_duration" -> Len(min_duration) = 1
                      [] k = "max_duration" -> Len(max_duration) = 1
                      [] k = "video_ids" -> Len(video_ids) = 1
                      [] k = "exclude_short" -> Len(exclude_short) = 1}
    IN  [k \in given |->
            CASE k = "min_duration" -> min_duration[1]
              [] k = "max_duration" -> max_duration[1]
              [] k = "video_ids" -> video_ids[1]
              [] k = "exclude_short" -> exclude_short[1]]

\* the filters tried: each key omitted or given, bounds of 0 and 2 seconds, an empty
\* and two non-empty allow-lists
FilterDicts ==
    {FilterDict(mn, mx, ids, ex) :
        mn \in {<<>>, <<0>>, <<Sec(2)>>},
        mx \in {<<>>, <<0>>, <<Sec(2)>>},
        ids \in {<<>>, << <<>> >>, << <<IdA>> >>, << <<IdB, IdA>> >>},
        ex \in {<<>>, <<TRUE>>}}

InitSearch ==
    /\ NoBatch
    /\ store \in Databases(SearchRows, MaxRows) \cup {BigDatabase}
    /\ query = NoQuery
    /\ replay = NoReplay

\* a call of search_word_in_subtitles
Search ==
    /\ query = NoQuery
    /\ \E search_word \in SearchWords, exact_match \in BOOLEAN, limit \in SearchLimits :
          \E result \in search_word_in_subtitles(store, search_word, exact_match, limit) :
              query' = [op |-> "search", search_word |-> search_word,
                        exact_match |-> exact_match, limit |-> limit, result |-> result]
    /\ UNCHANGED <<video_urls, max_workers, task, files, store, txn, lockHolder, results, replay>>

\* a call of advanced_search
AdvancedSearch ==
    /\ query = NoQuery
    /\ \E search_term \in SearchWords, filters \in FilterDicts :
          \E result \in advanced_search(store, search_term, filters) :
              query' = [op |-> "advanced", search_word |-> search_term,
                        filters |-> filters, limit |-> AdvancedLimit, result |-> result]
    /\ UNCHANGED <<video_urls, max_workers, task, files, store, txn, lockHolder, results, replay>>

\* the caller has taken the returned list
TakeResult ==
    /\ query # NoQuery
    /\ query' = NoQuery
    /\ UNCHANGED <<video_urls, max_workers, task, files, store, txn, lockHolder, results, replay>>

NextSearch == Search \/ AdvancedSearch \/ TakeResult

SpecSearch == InitSearch /\ [][NextSearch]_vars

(***************************************************************************)
(* The context side: get_video_context on a database filled by earlier     *)
(* runs                                                                    *)
(***************************************************************************)
\* rows of video A around second 100: at both ends of a 10 second window and just
\* outside, at distance 0.5 and 1.0 from it, two rows at the same time;
\* and a row of video B at second 100
ContextRows == {
    Row(IdA, RefWatchA, <<"a">>, MsToSeconds(89900), Sec(1), 0),
    Row(IdA, RefWatchA, <<"b">>, Sec(90), Sec(1), 1),
    Row(IdA, RefWatchA, <<"c">>, Sec(90), Sec(2), 2),
    Row(IdA, RefWatchA, <<"d">>, MsToSeconds(99500), Sec(1), 3),
    Row(IdA, RefWatchA, <<"e">>, MsToSeconds(100500), Sec(1), 4),
    Row(IdA, RefWatchA, <<"f">>, Sec(101), Sec(1), 5),
    Row(IdA, RefWatchA, <<"g">>, Sec(110), Sec(1), 6),
    Row(IdA, RefWatchA, <<"h">>, MsToSeconds(110100), Sec(1), 7),
    Row(IdB, RefWatchB, <<"i">>, Sec(100), Sec(1), 0) }

\* context_seconds: 10 is the default, show_context passes 15
ContextWindows == {0, 10, 15}

ContextTargets == {Sec(100), MsToSeconds(100500)}

InitContext ==
    /\ NoBatch
    /\ store \in Databases(ContextRows, MaxRows)
    /\ query = NoQuery
    /\ replay = NoReplay

\* a call of get_video_context
GetContext ==
    /\ query = NoQuery
    /\ \E video_id \in {IdA, IdB}, target_time \in ContextTargets,
          context_seconds \in ContextWindows :
          \E result \in get_video_context(store, video_id, target_time, context_seconds) :
              query' = [op |-> "context", video_id |-> video_id,
                        target_time |-> target_time,
                        context_seconds |-> context_seconds, result |-> result]
    /\ UNCHANGED <<video_urls, max_workers, task, files, store, txn, lockHolder, results, replay>>

NextContext == GetContext \/ TakeResult

SpecContext == InitContext /\ [][NextContext]_vars

(***************************************************************************)
(* The replay side: create_timestamp_url applied to its own output         *)
(***************************************************************************)
MaxReplays == 2

\* base references in every marker state: none, ?t=, &t=, #t=, &start=, with and
\* without the s suffix
BaseRefs == {
    RefShortA,
    RefWatchA,
    RefShortA \o <<"?", "t", "=", "7">>,
    RefShortA \o <<"?", "t", "=", "7", "s">>,
    RefWatchA \o <<"&", "t", "=", "7">>,
    RefWatchA \o <<"&", "t", "=", "7", "s">>,
    RefShortA \o <<"#", "t", "=", "7">>,
    RefWatchA \o <<"#", "t", "=", "7", "s">>,
    RefWatchA \o <<"&", "s", "t", "a", "r", "t", "=", "7">> }

ReplayTimes == {0, MsToSeconds(7500), Sec(30), Sec(45)}

InitReplay ==
    /\ NoBatch
    /\ store = <<>>
    /\ query = NoQuery
    /\ \E base \in BaseRefs : replay = [base |-> base, url |-> base, times |-> <<>>]

\* create_timestamp_url is applied to the reference built so far
BuildReplay ==
    /\ Len(replay.times) < MaxReplays
    /\ \E start_time \in ReplayTimes :
          replay' = [replay EXCEPT !.url = create_timestamp_url(@, start_time),
                                   !.times = Append(@, start_time)]
    /\ UNCHANGED <<video_urls, max_workers, task, files, store, txn, lockHolder, results, query>>

NextReplay == BuildReplay

SpecReplay == InitReplay /\ [][NextReplay]_vars

(***************************************************************************)
(* Properties                                                              *)
(***************************************************************************)
\* the keys of the rows in the database, committed or not
StoredKeys == {UniqueKey((store \o txn)[k]) : k \in 1..Len(store \o txn)}

\* the row the next INSERT of task j is for
AttemptedRow(j) ==
    EventRow(task[j].video_id, video_urls[j],
             TrackOf(task[j].video_id)[task[j].i + 1], task[j].i)

\* this step is an INSERT of task j that did not raise
InsertStep(j) ==
    /\ task[j].pc = "insert"
    /\ task'[j].pc = "insert"
    /\ task'[j].i > task[j].i
    /\ task'[j].errors = task[j].errors

\* C1: in every reachable state, under every interleaving of the ingestions, no two
\* rows of the database have the same (video_id, start_time, japanese_text); and an
\* INSERT for a key that is already there changes neither the committed nor the
\* uncommitted rows and is not counted in inserted_count.
C1_Uniqueness ==
    /\ [](UniqueRows(store \o txn))
    /\ [][\A j \in Tasks :
            (InsertStep(j) /\ UniqueKey(AttemptedRow(j)) \in StoredKeys)
                => /\ store' = store
                   /\ txn' = txn
                   /\ task'[j].inserted = task[j].inserted]_vars

\* C1 witness: two calls for the same video have both been fetched and have both run
\* their INSERTs without an error; the second one's were all dropped, and the video has
\* one row per caption
C1_Witness ==
    \E j, k \in Tasks :
        /\ j # k
        /\ task[j].video_id = IdA /\ task[k].video_id = IdA
        /\ task[j].pc = "done" /\ task[k].pc = "done"
        /\ task[j].fetches = 1 /\ task[k].fetches = 1
        /\ task[j].errors = 0 /\ task[k].errors = 0
        /\ task[j].inserted = 2 /\ task[k].inserted = 0
        /\ task[k].outcome.status = "no_subtitles"
        /\ Len(store) = 2

\* the call of task j has returned
Returned(j) == task[j].pc \in {"done", "collected"}

\* the rows stored for a video
RowsOfVideo(video_id) == {k \in 1..Len(store) : store[k].video_id = video_id}

\* the track has an event with text
HasText(events) == \E k \in 1..Len(events) : EventText(events[k]) # <<>>

\* C2: process_single_video run twice in a row on one reference (a pool of one worker
\* runs the calls one after the other, in the order submitted), where the video was
\* not stored and the fetch wrote a track with an event that has text: the first call
\* returns success and the second skipped; the second does not fetch and inserts
\* nothing, it reports the count the first left, and the video has that many rows
\* after the second as after the first.
C2_Idempotent ==
    \A i, j \in Tasks :
        ( /\ max_workers = 1
          /\ j = i + 1
          /\ video_urls[i] = video_urls[j]
          /\ Returned(j)
          /\ task[i].fetches = 1
          /\ task[i].written \in {"ja", "ja-orig"}
          /\ HasText(TrackOf(task[i].video_id)) )
        => /\ task[i].outcome.status = "success"
           /\ task[j].outcome.status = "skipped"
           /\ task[j].fetches = 0
           /\ task[j].inserted = 0
           /\ task[j].outcome.subtitle_count = task[i].outcome.subtitle_count
           /\ task[j].outcome.subtitle_count = Cardinality(RowsOfVideo(task[j].video_id))

\* C2 witness: the same reference twice through a pool of one worker, both calls
\* returned, the first after a fetch
C2_Witness ==
    /\ max_workers = 1
    /\ video_urls = <<RefWatchA, RefWatchA>>
    /\ Returned(1) /\ Returned(2)
    /\ task[1].written = "ja"
    /\ task[2].outcome.status = "skipped"
    /\ task[2].outcome.subtitle_count = 2

\* C10: in every completion order the detail list holds one outcome per collected
\* call, each call's outcome as often as calls returned it, and the four counters add
\* up to the length of the list; when process_video_list is done that is one outcome
\* per submitted reference and success + failed + skipped + no_subtitles = n.
C10_EveryCompletionCounted ==
    LET collected == {j \in Tasks : task[j].pc = "collected"}
        details == results.details
    IN  /\ Len(details) = Cardinality(collected)
        /\ results.success + results.failed + results.skipped + results.no_subtitles
              = Len(details)
        /\ \A j \in collected :
              Cardinality({k \in 1..Len(details) : details[k] = task[j].outcome})
                  = Cardinality({i \in collected : task[i].outcome = task[j].outcome})
        /\ BatchDone => Len(details) = Len(video_urls)

\* C10 witness: a batch of two is done, the second reference completed first, and
\* one of the two outcomes is the error of an invalid reference
C10_Witness ==
    /\ BatchDone
    /\ Len(video_urls) = 2
    /\ results.details[1] = task[2].outcome
    /\ results.details[1] # task[1].outcome
    /\ \E k \in 1..2 : results.details[k].status = "error"
    /\ results.failed = 1

\* the positions of the time markers of a reference: ?, & or # followed by t=<digits>
\* or start=<digits>
TimeMarkers(url) ==
    {i \in 1..Len(url) :
        /\ url[i] \in {"?", "&", "#"}
        /\ \E name \in {MarkerT, MarkerStart} :
              OccursAt(url, i + 1, name) /\ DigitRun(url, i + 1 + Len(name)) > 0}

\* the number of seconds the marker at position i gives
MarkerValue(url, i) ==
    LET name == CHOOSE n \in {MarkerT, MarkerStart} :
                    OccursAt(url, i + 1, n) /\ DigitRun(url, i + 1 + Len(n)) > 0
        from == i + 1 + Len(name)
    IN  StrToInt(SubSeq(url, from, from + DigitRun(url, from) - 1))

\* C3: for every base reference, whatever marker it carries, create_timestamp_url
\* applied with 30 seconds and then with 45 seconds gives a reference with exactly one
\* time marker, of 45.
C3_OneMarkerAfterTwoBuilds ==
    replay.times = <<Sec(30), Sec(45)>>
        => \E i \in 1..Len(replay.url) :
              TimeMarkers(replay.url) = {i} /\ MarkerValue(replay.url, i) = 45

\* the smaller of two numbers
Min(a, b) == IF a < b THEN a ELSE b

\* C4: a search that is not exact returns a row if and only if its text contains the
\* word as a contiguous substring, case-sensitively (up to the limit), for every word,
\* '%', '_' and ASCII letters included.
C4_SubstringMatch ==
    (query.op = "search" /\ ~query.exact_match)
        => LET containing == {k \in 1..Len(store) :
                                 Contains(store[k].japanese_text, query.search_word)}
               returned == {k \in 1..Len(store) :
                               \E p \in 1..Len(query.result) :
                                   query.result[p] = ResultOf(store[k])}
           IN  /\ returned \subseteq containing
               /\ Cardinality(returned) = Min(query.limit, Cardinality(containing))

\* the rows the WHERE clause of the call being served selects
Selected ==
    {k \in 1..Len(store) :
        IF query.op = "search"
        THEN SearchWhere(store[k], query.search_word, query.exact_match)
        ELSE AdvancedWhere(store[k], query.search_word, query.filters)}

\* a sorts before b by (video_id, start_time)
KeyBefore(a, b) ==
    \/ StrLess(a.video_id, b.video_id)
    \/ a.video_id = b.video_id /\ a.start_time < b.start_time

\* C5: whatever the insertion order, search and advanced search return the selected
\* rows in ascending (video_id, start_time) order, and exactly the first `limit` of
\* them in that order: as many as the limit allows (20 by default, 50 for advanced
\* search), each once, and no selected row that was left out sorts before a returned one.
C5_OrderedAndLimited ==
    query.op \in {"search", "advanced"}
        => LET result == query.result
               returned == {k \in Selected :
                               \E p \in 1..Len(result) : result[p] = ResultOf(store[k])}
           IN  /\ \A p, q \in 1..Len(result) : p < q => ~KeyBefore(result[q], result[p])
               /\ Len(result) = Min(query.limit, Cardinality(Selected))
               /\ Cardinality(returned) = Len(result)
               /\ \A p \in 1..Len(result) : \E k \in returned : result[p] = ResultOf(store[k])
               /\ \A k \in Selected \ returned, c \in returned :
                      ~KeyBefore(store[k], store[c])
               /\ query.op = "advanced" => query.limit = 50
               /\ (store = BigDatabase /\ query.op = "search" /\ query.limit = 20
                      /\ ~query.exact_match /\ query.search_word = <<"z">>)
                     => Len(result) = 20

\* C5 witness: rows of video A, video B, video A were stored in that order, the last
\* one the earliest of A; a search with limit 2 selects all three and returns the two
\* of A, the last stored first
C5_Witness ==
    /\ query.op = "search"
    /\ query.limit = 2
    /\ Len(store) = 3
    /\ Selected = {1, 2, 3}
    /\ store[1].video_id = IdA /\ store[2].video_id = IdB /\ store[3].video_id = IdA
    /\ store[3].start_time < store[1].start_time
    /\ query.result = <<ResultOf(store[3]), ResultOf(store[1])>>

\* C6: every row advanced search returns has min_duration <= duration <= max_duration
\* for each of the two bounds that is supplied, a bound of 0 included.
C6_DurationBounds ==
    query.op = "advanced"
        => \A p \in 1..Len(query.result) :
              /\ "min_duration" \in DOMAIN query.filters
                    => query.result[p].duration >= query.filters["min_duration"]
              /\ "max_duration" \in DOMAIN query.filters
                    => query.result[p].duration <= query.filters["max_duration"]

\* the filters without the allow-list
WithoutVideoIds(filters) == [k \in DOMAIN filters \ {"video_ids"} |-> filters[k]]

\* C7: when a video_ids list is supplied, the empty list included, every row advanced
\* search returns is of a video on the list, and passes the other filters as well.
C7_AllowList ==
    (query.op = "advanced" /\ "video_ids" \in DOMAIN query.filters)
        => \A p \in 1..Len(query.result) :
              /\ \E n \in 1..Len(query.filters["video_ids"]) :
                    query.filters["video_ids"][n] = query.result[p].video_id
              /\ \E k \in 1..Len(store) :
                    /\ query.result[p] = ResultOf(store[k])
                    /\ AdvancedWhere(store[k], query.search_word,
                                     WithoutVideoIds(query.filters))

\* the rowids of the video's rows that start in the closed window around the target
InWindow ==
    {k \in 1..Len(store) :
        /\ store[k].video_id = query.video_id
        /\ store[k].start_time >= query.target_time - Sec(query.context_seconds)
        /\ store[k].start_time <= query.target_time + Sec(query.context_seconds)}

\* the row an item of the context list was made from
ItemIsOf(item, r) ==
    /\ item.text = r.japanese_text
    /\ item.start_time = r.start_time
    /\ item.end_time = r.end_time
    /\ item.sequence_number = r.sequence_number

\* C8: get_video_context returns exactly the rows of the video, and of no other video,
\* that start in [target_time - context_seconds, target_time + context_seconds], each
\* once, in ascending start_time order; with target 100 and window 10 a row at 89.9 is
\* left out and a row at 90.0 is returned.
C8_ContextWindow ==
    query.op = "context"
        => LET result == query.result
           IN  /\ Len(result) = Cardinality(InWindow)
               /\ \A k \in InWindow : \E p \in 1..Len(result) : ItemIsOf(result[p], store[k])
               /\ \A p \in 1..Len(result) : \E k \in InWindow : ItemIsOf(result[p], store[k])
               /\ \A p, q \in 1..Len(result) :
                      p < q => result[p].start_time <= result[q].start_time
               /\ (query.target_time = Sec(100) /\ query.context_seconds = 10)
                     => \A p \in 1..Len(result) :
                           result[p].start_time # MsToSeconds(89900)
               /\ (query.target_time = Sec(100) /\ query.context_seconds = 10
                      /\ query.video_id = IdA)
                     => \A k \in 1..Len(store) :
                           (store[k].video_id = IdA /\ store[k].start_time = Sec(90))
                              => \E p \in 1..Len(result) : ItemIsOf(result[p], store[k])

\* C8 witness: video A holds rows at 89.9 and at 90.0 and video B a row at 100; the
\* context of video A at 100 with a window of 10 is the row at 90.0 alone
C8_Witness ==
    /\ query.op = "context"
    /\ query.video_id = IdA
    /\ query.target_time = Sec(100)
    /\ query.context_seconds = 10
    /\ \E k \in 1..Len(store) :
          store[k].video_id = IdA /\ store[k].start_time = MsToSeconds(89900)
    /\ \E k \in 1..Len(store) :
          store[k].video_id = IdB /\ store[k].start_time = Sec(100)
    /\ Len(query.result) = 1
    /\ query.result[1].start_time = Sec(90)

\* C9 as stated: is_target is set on exactly the items whose start_time is within 1.0
\* second of target_time, the distance of exactly 1.0 second included.
C9_TargetWithinOneSecondInclusive ==
    query.op = "context"
        => \A p \in 1..Len(query.result) :
              query.result[p].is_target
                 <=> Abs(query.result[p].start_time - query.target_time) <= Sec(1)

\* C9: is_target is set on exactly the items whose start_time is less than 1.0 second
\* from target_time; an item at exactly 1.0 second is not marked, and several items
\* may be marked.
C9_TargetWithinOneSecond ==
    query.op = "context"
        => \A p \in 1..Len(query.result) :
              query.result[p].is_target
                 <=> Abs(query.result[p].start_time - query.target_time) < Sec(1)

\* C9 witness: around the target 100 the items at 99.5 and 100.5 are both marked and
\* the item at 101, exactly 1.0 second away, is not
C9_Witness ==
    /\ query.op = "context"
    /\ query.target_time = Sec(100)
    /\ Len(query.result) = 3
    /\ query.result[1].start_time = MsToSeconds(99500) /\ query.result[1].is_target
    /\ query.result[2].start_time = MsToSeconds(100500) /\ query.result[2].is_target
    /\ query.result[3].start_time = Sec(101) /\ ~query.result[3].is_target

(***************************************************************************)
(* The batch under fair scheduling: the operating system keeps running the *)
(* pool's threads and the collecting loop, and every track fetch returns   *)
(* or times out (timeout=60, line 112), so a step that can be taken is     *)
(* eventually taken                                                        *)
(***************************************************************************)
SpecLive == Spec /\ WF_vars(Next)

\* the report is complete: one detail per reference, in a batch that has returned
ReportComplete ==
    /\ BatchDone
    /\ Len(results.details) = Len(video_urls)

\* C11: process_video_list terminates on every reference list and returns a completed
\* report, also when every video fails (invalid reference, failed fetch, storage
\* error): no failure of a video leaves a call unreturned or a future uncollected.
C11_BatchTerminates == <>[]ReportComplete

\* C11 witness: a batch of two has returned its report and both videos failed, one on
\* its reference and one on its fetch
C11_Witness ==
    /\ ReportComplete
    /\ Len(video_urls) = 2
    /\ results.failed = 2
    /\ \E j, k \in Tasks :
          /\ task[j].outcome.status = "error"
          /\ task[k].outcome.status = "failed"

\* the events of a track that produce a row: those with text whose key no earlier event
\* of the track has (0-based indices)
Producing(video_id, url) ==
    LET events == TrackOf(video_id)
        row(i) == EventRow(video_id, url, events[i + 1], i)
    IN  {i \in 0..(Len(events) - 1) :
            /\ EventText(events[i + 1]) # <<>>
            /\ \A h \in 0..(i - 1) :
                  EventText(events[h + 1]) # <<>> => UniqueKey(row(h)) # UniqueKey(row(i))}

\* the rows a call stores when it parses the fetched track of its video alone
PayloadRows(video_id, url) ==
    {EventRow(video_id, url, TrackOf(video_id)[i + 1], i) : i \in Producing(video_id, url)}

\* the committed rows of a video
StoredRows(video_id) == {store[k] : k \in RowsOfVideo(video_id)}

\* call j has returned with a failure: a failed fetch or a reference without a video id
Failing(j) ==
    /\ Returned(j)
    /\ task[j].outcome.status \in {"failed", "error"}

\* what call k returns and stores when it is the only call of the batch, given what its
\* fetch did
AsIfAlone(k) ==
    LET t == task[k]
        url == video_urls[k]
    IN  IF t.video_id = NoVideoId
        THEN t.outcome = ErrorOutcome(url) /\ t.fetches = 0
        ELSE IF t.written = "failed"
        THEN t.outcome = Outcome(t.video_id, url, "failed", 0) /\ StoredRows(t.video_id) = {}
        ELSE IF t.written = "none"
        THEN /\ t.outcome = Outcome(t.video_id, url, "no_subtitles", 0)
             /\ StoredRows(t.video_id) = {}
        ELSE /\ t.outcome = Outcome(t.video_id, url, "success",
                                    Cardinality(PayloadRows(t.video_id, url)))
             /\ StoredRows(t.video_id) = PayloadRows(t.video_id, url)

\* C12: the failure of one video (invalid reference, failed or timed-out fetch) never
\* changes the outcome or the stored rows of a sibling with another video id. No step of
\* a call up to and including its failure touches the store, the open transaction, the
\* write lock, the fetched files or another call; and a call whose siblings all failed
\* returns and stores what it returns and stores when run alone.
C12_FailureContained ==
    /\ [][\A j \in Tasks :
            (/\ task[j].pc \in {"queued", "download"}
             /\ task'[j] # task[j]
             /\ task'[j].pc = "download" \/ Failing(j)')
            => /\ UNCHANGED <<store, txn, lockHolder, files>>
               /\ \A k \in Tasks \ {j} : task'[k] = task[k]]_vars
    /\ [](\A k \in Tasks :
            (/\ Returned(k)
             /\ Tasks # {k}
             /\ \A j \in Tasks \ {k} : Failing(j) /\ task[j].video_id # task[k].video_id)
            => AsIfAlone(k))

\* C12 witness: in a batch of two run by two workers the first fetch failed, and the
\* sibling, fetched and parsed, returned success with the rows of its track stored
C12_Witness ==
    /\ max_workers = 2
    /\ Len(video_urls) = 2
    /\ Failing(1) /\ task[1].written = "failed"
    /\ Returned(2) /\ task[2].outcome.status = "success"
    /\ task[2].video_id # task[1].video_id
    /\ StoredRows(task[2].video_id) = PayloadRows(task[2].video_id, video_urls[2])

\* the calls of process_single_video that have started and have not returned
InFlight == {j \in Tasks : task[j].pc \notin {"queued", "done", "collected"}}

\* C13: at every moment of a batch the number of references whose process_single_video
\* has started and not returned is at most max_workers, although every reference is
\* submitted before the first one completes.
C13_BoundedConcurrency == Cardinality(InFlight) <= max_workers

\* C13 witness: a pool of one worker is busy with the first of two references and the
\* second, submitted with it, waits in the queue
C13_Witness ==
    /\ max_workers = 1
    /\ Len(video_urls) = 2
    /\ Cardinality(InFlight) = 1
    /\ \E j \in Tasks : task[j].pc = "queued"

\* C14: during a batch no two workers are inside process_single_video for the same video
\* id at the same time, whatever the reference list.
C14_DisjointVideos ==
    \A j, k \in InFlight : j # k => task[j].video_id # task[k].video_id

\* the video ids of the batch are pairwise distinct and every fetch wrote a track
DistinctAndFetched ==
    /\ \A j, k \in Tasks : j # k => task[j].video_id # task[k].video_id
    /\ \A j \in Tasks : task[j].written \in {"ja", "ja-orig"}

\* C15: for a batch over pairwise distinct videos whose fetches all succeed, the final
\* store holds, in every interleaving and completion order, exactly the rows of every
\* fetched track that have text: no row is lost because another worker was writing.
C15_WritesCommute ==
    (BatchDone /\ DistinctAndFetched)
        => \A j \in Tasks :
              StoredRows(task[j].video_id) = PayloadRows(task[j].video_id, video_urls[j])

\* the step in which the fetch of call j fails
FetchFails(j) ==
    /\ task[j].pc = "download"
    /\ task'[j] # task[j]
    /\ task'[j].written = "failed"

\* C16: when the track fetch of a video fails (non-zero result, timeout or exception)
\* process_single_video returns at once a failed outcome with subtitle_count 0, that
\* step leaves the store and the open transaction unchanged, and the call has fetched
\* exactly once and inserted nothing.
C16_FetchFailure ==
    /\ [][\A j \in Tasks :
            FetchFails(j)
               => /\ task'[j].pc = "done"
                  /\ task'[j].outcome = Outcome(task[j].video_id, video_urls[j], "failed", 0)
                  /\ UNCHANGED <<store, txn, lockHolder>>]_vars
    /\ [](\A j \in Tasks :
            (task[j].written = "failed" /\ task[j].pc # "download")
               => /\ Returned(j)
                  /\ task[j].outcome.status = "failed"
                  /\ task[j].outcome.subtitle_count = 0
                  /\ task[j].fetches = 1
                  /\ task[j].inserted = 0)

\* C16 witness: the only call of a batch has returned failed after one fetch, and the
\* store is as empty as it was
C16_Witness ==
    /\ Len(video_urls) = 1
    /\ Returned(1)
    /\ task[1].written = "failed"
    /\ task[1].fetches = 1
    /\ task[1].outcome.status = "failed"
    /\ store = <<>> /\ txn = <<>>

\* C17: a video whose ingestion ended failed on its fetch stays unmarked. With the same
\* reference submitted twice to a pool of one worker, which runs the calls one after the
\* other: after the first call failed the video has no stored row, and the second call
\* is not skipped but goes on to the track fetch, which it invokes once.
C17_FailedStaysUnmarked ==
    \A i, j \in Tasks :
        ( /\ max_workers = 1
          /\ j = i + 1
          /\ video_urls[i] = video_urls[j]
          /\ Returned(i)
          /\ task[i].outcome.status = "failed" )
        => /\ task[j].pc = "queued"
                => /\ StoredRows(task[i].video_id) = {}
                   /\ \A k \in 1..Len(txn) : txn[k].video_id # task[i].video_id
           /\ task[j].pc # "queued"
                => /\ task[j].fetches = (IF task[j].pc = "download" THEN 0 ELSE 1)
                   /\ Returned(j) => task[j].outcome.status # "skipped"

\* C17 witness: the first call on a reference failed on its fetch, and the second call
\* on the same reference fetched again and returned success
C17_Witness ==
    /\ max_workers = 1
    /\ video_urls = <<RefShortA, RefShortA>>
    /\ Returned(1) /\ task[1].outcome.status = "failed"
    /\ Returned(2) /\ task[2].fetches = 1
    /\ task[2].outcome.status = "success"

\* the calls on the reference no pattern finds a video id in
Invalid == {j \in Tasks : video_urls[j] = RefBad}

\* C18: for a reference from which no video id can be extracted, process_single_video
\* returns at its first step the outcome of the except clause, which the batch counts
\* under failed; the track fetch is not invoked, and no stored row is modified or
\* consulted: the step leaves store, transaction, lock and files as they are, and the
\* outcome is the same whatever the store holds.
C18_InvalidReference ==
    /\ [][\A j \in Invalid :
            task'[j] # task[j]
               => /\ task[j].pc = "queued" => task'[j].pc = "done"
                  /\ task'[j].outcome = ErrorOutcome(video_urls[j])
                  /\ task'[j].fetches = 0
                  /\ UNCHANGED <<store, txn, lockHolder, files>>]_vars
    /\ [](\A j \in Invalid :
            /\ task[j].pc \in {"queued", "done", "collected"}
            /\ task[j].fetches = 0 /\ task[j].inserted = 0
            /\ Returned(j) => task[j].outcome.status = "error")
    /\ [](results.failed
             = Cardinality({j \in Tasks : task[j].pc = "collected" /\ Failing(j)}))

\* C18 witness: the invalid reference was processed after a sibling had stored its rows,
\* and the batch has counted it under failed
C18_Witness ==
    /\ video_urls = <<RefWatchA, RefBad>>
    /\ max_workers = 1
    /\ StoredRows(IdA) # {}
    /\ task[2].pc = "collected"
    /\ task[2].outcome.status = "error"
    /\ task[2].fetches = 0
    /\ results.failed = 1

\* the fetch of call j succeeded: yt-dlp returned 0, with or without a track file
FetchSucceeded(j) == task[j].written \in {"none", "ja", "ja-orig"}

\* C19: when the fetch succeeds, process_single_video returns success exactly when the
\* call inserted at least one row and no_subtitles exactly when it inserted none (no
\* track, empty track, only duplicates); no_subtitles is never reported or counted as
\* failed.
C19_SuccessIffInserted ==
    /\ \A j \in Tasks :
          (Returned(j) /\ FetchSucceeded(j))
             => /\ task[j].outcome.status \in {"success", "no_subtitles"}
                /\ task[j].outcome.status = "success" <=> task[j].inserted >= 1
                /\ task[j].outcome.status = "no_subtitles" <=> task[j].inserted = 0
    /\ results.no_subtitles
          = Cardinality({j \in Tasks : /\ task[j].pc = "collected"
                                       /\ task[j].outcome.status = "no_subtitles"})

\* the text has a character that is not whitespace
HasVisibleText(text) == \E k \in 1..Len(text) : text[k] \notin {" ", "\n", "\t"}

\* C20: in every reachable state no stored row, committed or in an open transaction,
\* has empty or whitespace-only text: an event whose joined segment text is empty after
\* trimming, or that has no segments, produces no row.
C20_NoBlankText ==
    \A k \in 1..Len(store \o txn) : HasVisibleText((store \o txn)[k].japanese_text)

\* C20 witness: the track of video A, whose second event is two spaces, and the track
\* of video B, whose second event has no segments, have both been parsed to their end
\* and committed: two rows of A and one of B, none of them for those events
C20_Witness ==
    /\ \E j \in Tasks : Returned(j) /\ task[j].video_id = IdA /\ task[j].inserted = 2
    /\ \E j \in Tasks : Returned(j) /\ task[j].video_id = IdB /\ task[j].inserted = 1
    /\ Cardinality(StoredRows(IdA)) = 2
    /\ Cardinality(StoredRows(IdB)) = 1
    /\ \A k \in 1..Len(store) : store[k].sequence_number # 1

\* the event of the fetched track a stored row came from
EventOf(r) == TrackOf(r.video_id)[r.sequence_number + 1]

\* a millisecond offset of an event, 0 when the event does not carry it
OffsetMs(event, key) == IF key \in DOMAIN event THEN event[key] ELSE 0

\* C21: every stored row has start_time = tStartMs/1000, duration = dDurationMs/1000 and
\* end_time = start_time + duration for the event it came from, a missing offset or
\* duration counting as 0; the event with tStartMs 1500 and dDurationMs 2500 is stored
\* with start_time 1.5, duration 2.5 and end_time 4.0 (times in microseconds here).
C21_SecondsFromMilliseconds ==
    \A k \in 1..Len(store \o txn) :
        LET r == (store \o txn)[k]
            event == EventOf(r)
        IN  /\ r.start_time = OffsetMs(event, "tStartMs") * 1000
            /\ r.duration = OffsetMs(event, "dDurationMs") * 1000
            /\ r.end_time = r.start_time + r.duration
            /\ (OffsetMs(event, "tStartMs") = 1500 /\ OffsetMs(event, "dDurationMs") = 2500)
                  => /\ r.start_time = 1500000
                     /\ r.duration = 2500000
                     /\ r.end_time = 4000000

\* C21 witness: the store holds the row of the event with offsets 1500 and 2500, the row
\* of an event without a start offset and the row of an event without a duration
C21_Witness ==
    /\ \E k \in 1..Len(store) :
          /\ store[k].start_time = 1500000 /\ store[k].end_time = 4000000
    /\ \E k \in 1..Len(store) :
          /\ "tStartMs" \notin DOMAIN EventOf(store[k])
          /\ store[k].start_time = 0 /\ store[k].end_time = 2000000
    /\ \E k \in 1..Len(store) :
          /\ "dDurationMs" \notin DOMAIN EventOf(store[k])
          /\ store[k].duration = 0 /\ store[k].end_time = 5000000

\* the events of a video's track with text, distinct by (start offset, stripped text)
DistinctCaptions(video_id) ==
    LET events == TrackOf(video_id)
    IN  {<<OffsetMs(events[i], "tStartMs"), EventText(events[i])>> :
            i \in {h \in 1..Len(events) : EventText(events[h]) # <<>>}}

\* call j fetched a track and was the only writer: no other call of the batch is for its
\* video and none of its INSERTs met another worker's lock
IngestedAlone(j) ==
    /\ Returned(j)
    /\ task[j].written \in {"ja", "ja-orig"}
    /\ task[j].errors = 0
    /\ \A k \in Tasks \ {j} : extract_video_id(video_urls[k]) # task[j].video_id

\* the text of the third event of the track of video A
ThirdText == <<"s", "A">>

\* C22: after process_single_video of a video that had no rows, with a successful fetch,
\* the rows stored for the video and the reported subtitle_count both number the events
\* of the track whose stripped text is not empty, distinct by (start_time, text). For
\* the track of three events (text at 0 s, blank text at 2 s, text at 5 s) that is 2
\* rows, and a search for the third text returns exactly 1 result, with start_time 5 and
\* a timestamp_url whose only time marker is 5.
C22_StoredCountAndSearch ==
    \A j \in Tasks :
        IngestedAlone(j)
           => /\ task[j].outcome.status = "success"
              /\ task[j].outcome.subtitle_count
                    = Cardinality(DistinctCaptions(task[j].video_id))
              /\ Cardinality(RowsOfVideo(task[j].video_id))
                    = Cardinality(DistinctCaptions(task[j].video_id))
              /\ task[j].video_id = IdA
                    => /\ Cardinality(RowsOfVideo(IdA)) = 2
                       /\ \A found \in search_word_in_subtitles(store, ThirdText, FALSE,
                                                                DefaultLimit) :
                             /\ Len(found) = 1
                             /\ found[1].start_time = 5000000
                             /\ \E m \in 1..Len(found[1].timestamp_url) :
                                   /\ TimeMarkers(found[1].timestamp_url) = {m}
                                   /\ MarkerValue(found[1].timestamp_url, m) = 5

\* C22 witness: the three-event track of video A was ingested alone next to video B, and
\* a search for its third text finds one row
C22_Witness ==
    /\ \E j \in Tasks :
          /\ IngestedAlone(j)
          /\ task[j].video_id = IdA
          /\ task[j].outcome.subtitle_count = 2
    /\ \E k \in Tasks : IngestedAlone(k) /\ task[k].video_id = IdB
    /\ \E found \in search_word_in_subtitles(store, ThirdText, FALSE, DefaultLimit) :
          Len(found) = 1 /\ found[1].sequence_number = 2

(***************************************************************************)
(* The store under ingestion and reads: a batch runs while searches,       *)
(* contexts, statistics and exports are served from the committed rows     *)
(***************************************************************************)
\* SELECT SUM(duration) FROM subtitles
RECURSIVE SumDuration(_)
SumDuration(rows) ==
    IF rows = <<>> THEN 0 ELSE Head(rows).duration + SumDuration(Tail(rows))

\* get_database_stats, lines 312-337; total_duration_hours is total_duration / 3600, kept
\* as the fraction
get_database_stats(rows) ==
    LET total_duration == SumDuration(rows)
    IN  [total_subtitle_entries |-> Len(rows),
         unique_videos |-> Cardinality({rows[i].video_id : i \in 1..Len(rows)}),
         total_duration_seconds |-> total_duration,
         total_duration_hours |-> <<total_duration, 3600>>]

\* the line export_database_to_csv writes for a row
CsvRow(r) ==
    <<r.video_id, r.video_url, r.japanese_text, r.start_time, r.end_time, r.duration,
      r.sequence_number>>

\* export_database_to_csv, lines 291-310: every file it may write on the rows, the header
\* line and one line per row ORDER BY video_id, start_time
export_database_to_csv(rows) ==
    {<< <<"video_id", "video_url", "japanese_text", "start_time", "end_time", "duration",
          "sequence_number">> >> \o [i \in 1..Len(fetched) |-> CsvRow(fetched[i])] :
        fetched \in OrderBy(rows, 1..Len(rows), "video_id, start_time")}

\* the reads served while a batch runs
ReadWords == {ThirdText, <<"b">>}
ReadTarget == Sec(5)

ReadSearch ==
    /\ query = NoQuery
    /\ \E search_word \in ReadWords :
          \E result \in search_word_in_subtitles(store, search_word, FALSE, DefaultLimit) :
              query' = [op |-> "search", search_word |-> search_word,
                        exact_match |-> FALSE, limit |-> DefaultLimit, result |-> result]
    /\ UNCHANGED <<video_urls, max_workers, task, files, store, txn, lockHolder, results, replay>>

ReadAdvanced ==
    /\ query = NoQuery
    /\ \E search_term \in ReadWords :
          LET filters == FilterDict(<<>>, <<>>, <<>>, <<TRUE>>)
          IN  \E result \in advanced_search(store, search_term, filters) :
                 query' = [op |-> "advanced", search_word |-> search_term,
                           filters |-> filters, limit |-> AdvancedLimit, result |-> result]
    /\ UNCHANGED <<video_urls, max_workers, task, files, store, txn, lockHolder, results, replay>>

ReadContext ==
    /\ query = NoQuery
    /\ \E result \in get_video_context(store, IdA, ReadTarget, 10) :
          query' = [op |-> "context", video_id |-> IdA, target_time |-> ReadTarget,
                    context_seconds |-> 10, result |-> result]
    /\ UNCHANGED <<video_urls, max_workers, task, files, store, txn, lockHolder, results, replay>>

ReadStats ==
    /\ query = NoQuery
    /\ query' = [op |-> "stats", result |-> get_database_stats(store)]
    /\ UNCHANGED <<video_urls, max_workers, task, files, store, txn, lockHolder, results, replay>>

ReadExport ==
    /\ query = NoQuery
    /\ \E result \in export_database_to_csv(store) :
          query' = [op |-> "export", result |-> result]
    /\ UNCHANGED <<video_urls, max_workers, task, files, store, txn, lockHolder, results, replay>>

NextStore ==
    \/ Next
    \/ ReadSearch
    \/ ReadAdvanced
    \/ ReadContext
    \/ ReadStats
    \/ ReadExport
    \/ TakeResult

SpecStore == Init /\ [][NextStore]_vars

\* C23: the store is append-only. In every step of ingestion, batch, search, advanced
\* search, context, statistics and export every committed row stays where it is with
\* all its fields, video_url and sequence_number included; and a step that serves a read
\* leaves the store and the open transaction as they are.
C23_AppendOnly ==
    /\ [][/\ Len(store') >= Len(store)
          /\ \A k \in 1..Len(store) : store'[k] = store[k]]_vars
    /\ [][query' # query => (store' = store /\ txn' = txn)]_vars

\* C23 witness: after the commits of two videos the statistics are served from a store
\* of three rows of two videos
C23_Witness ==
    /\ query.op = "stats"
    /\ query.result.total_subtitle_entries = 3
    /\ query.result.unique_videos = 2
    /\ Len(store) = 3
    /\ store[1].video_id # store[3].video_id

(***************************************************************************)
(* The batch under an interruption: the process is killed at any moment    *)
(* and process_video_list is run again on the same list                    *)
(***************************************************************************)
\* a database whose rows stand as soon as they are inserted
KeptAsInserted(rows, pending) == rows \o pending

\* lines 140-167: the rows a connection inserted are pending until conn.commit(); when
\* the process dies before it, SQLite rolls the transaction back and the table is as it
\* was
RolledBack(rows, pending) == rows

\* call j is inside its INSERT loop, after some and before all of its rows
MidInsert(j) ==
    /\ task[j].pc = "insert"
    /\ task[j].inserted >= 1
    /\ task[j].i < Len(TrackOf(task[j].video_id))

\* the process is killed and a new process runs the batch again on the same list: the
\* open transaction is rolled back, the fetched files stay on disk
Kill ==
    /\ Tasks # {}
    /\ \A j \in Tasks : task[j].run = 1
    /\ \E j \in Tasks : task[j].pc \notin {"queued", "collected"}
    /\ store' = RolledBack(store, txn)
    /\ txn' = <<>>
    /\ lockHolder' = NoTask
    /\ task' = [j \in Tasks |-> [QueuedTask EXCEPT !.run = 2, !.cut = MidInsert(j)]]
    /\ results' = EmptyResults
    /\ UNCHANGED <<video_urls, max_workers, files, query, replay>>

NextKill == Next \/ Kill

SpecKill == Init /\ [][NextKill]_vars

\* the step that kills the process
KillStep == \E j \in Tasks : task[j].run = 1 /\ task'[j].run = 2

\* C24 as stated: when the process is interrupted after some but not all rows of a video
\* were inserted, the rows inserted before the interruption remain in the store, and
\* every later call for that video returns skipped without fetching.
C24_PartialInsertsStand ==
    /\ [][\A j \in Tasks :
            (KillStep /\ MidInsert(j))
               => \A k \in 1..Len(txn) : \E n \in 1..Len(store') : store'[n] = txn[k]]_vars
    /\ [](\A j \in Tasks :
            (task[j].cut /\ Returned(j))
               => task[j].outcome.status = "skipped" /\ task[j].fetches = 0)

\* C24: when the process is interrupted after some but not all rows of a video were
\* inserted, before the commit, none of the rows inserted by the interrupted call is in
\* the store afterwards; the next call for that video whose check finds no committed row
\* of it is not skipped: it goes on to the track fetch.
C24_InterruptedInsertsRolledBack ==
    /\ [][KillStep
            => /\ store' = store
               /\ txn' = <<>>
               /\ \A k \in 1..Len(txn) : \A n \in 1..Len(store') : store'[n] # txn[k]]_vars
    /\ [][\A j \in Tasks :
            (/\ task[j].cut
             /\ task[j].pc = "queued"
             /\ task'[j].pc # "queued"
             /\ RowsOfVideo(task'[j].video_id) = {})
            => task'[j].pc = "download"]_vars
    /\ [](\A j \in Tasks :
            (task[j].cut /\ Returned(j) /\ task[j].outcome.status = "skipped")
               => task[j].fetches = 0 /\ RowsOfVideo(task[j].video_id) # {})

\* C24 witness: the run before was killed inside the INSERT loop of the only reference
\* of the batch; the call of the new run found no row, fetched the track again and
\* returned success with all its rows
C24_Witness ==
    /\ Len(video_urls) = 1
    /\ task[1].cut
    /\ Returned(1)
    /\ task[1].fetches = 1
    /\ task[1].outcome.status = "success"
    /\ task[1].outcome.subtitle_count = Cardinality(RowsOfVideo(task[1].video_id))

\* the step in which call j invokes the track fetch
FetchStep(j) == task'[j].fetches = task[j].fetches + 1

\* the step in which call j executes an INSERT
InsertAttempt(j) == task[j].pc = "insert" /\ task'[j] # task[j] /\ task'[j].pc = "insert"

\* C25: within one call of process_single_video the steps are strictly sequential. The
\* fetch is invoked only after the existence check has completed and found no row, an
\* INSERT is executed only after the fetch has returned successfully, and a call whose
\* check found rows or whose fetch failed never gets to an INSERT.
C25_StrictlySequential ==
    /\ [][\A j \in Tasks :
            /\ FetchStep(j)
                  => /\ task[j].pc = "download"
                     /\ task[j].video_id # NoVideoId
                     /\ task[j].fetches = 0
            /\ InsertAttempt(j)
                  => /\ task[j].fetches = 1
                     /\ FetchSucceeded(j)]_vars
    /\ [](\A j \in Tasks :
            /\ task[j].pc \in {"parse", "insert", "remove"}
                  => task[j].fetches = 1 /\ FetchSucceeded(j)
            /\ (Returned(j) /\ task[j].outcome.status \in {"skipped", "failed", "error"})
                  => /\ task[j].inserted = 0 /\ task[j].errors = 0 /\ task[j].i = 0
                     /\ lockHolder # j
            /\ (Returned(j) /\ task[j].outcome.status = "skipped") => task[j].fetches = 0)

\* C25 witness: a call has checked, fetched and is between two INSERTs, one row pending
C25_Witness ==
    \E j \in Tasks :
        /\ task[j].pc = "insert"
        /\ task[j].fetches = 1
        /\ task[j].inserted = 1
        /\ lockHolder = j
        /\ Len(txn) = 1

\* the step in which an INSERT of call j raises sqlite3.Error
InsertRaises(j) == task'[j].errors = task[j].errors + 1

\* the 0-based indices of the events of a track that have text
TextEvents(video_id) ==
    {i \in 0..(Len(TrackOf(video_id)) - 1) : EventText(TrackOf(video_id)[i + 1]) # <<>>}

\* C26: a storage error on the INSERT of one row aborts that INSERT only. The step
\* leaves the store, the transaction and the count of inserted rows as they are and the
\* call goes on with the next event that has text, if there is one; the call still
\* commits, returns success or no_subtitles with a count of the rows it added, and is
\* collected by the batch.
C26_StorageErrorSkipsOneRow ==
    /\ [][\A j \in Tasks :
            InsertRaises(j)
               => /\ task'[j].pc = "insert"
                  /\ task'[j].inserted = task[j].inserted
                  /\ UNCHANGED <<store, txn, lockHolder>>
                  /\ \A i \in TextEvents(task[j].video_id) :
                        i > task[j].i => task'[j].i <= i
                  /\ task'[j].i > task[j].i]_vars
    /\ [](\A j \in Tasks :
            (Returned(j) /\ task[j].errors >= 1)
               => /\ task[j].outcome.status \in {"success", "no_subtitles"}
                  /\ task[j].outcome.subtitle_count <= task[j].inserted
                  /\ task[j].outcome.status = "success"
                        => task[j].outcome.subtitle_count = task[j].inserted
                  /\ task[j].inserted + task[j].errors
                        <= Cardinality(TextEvents(task[j].video_id)))
    /\ [](BatchDone => Len(results.details) = Len(video_urls))

\* C26 witness: the first INSERT of a call met the lock of another worker and raised,
\* the second added its row; the call returned success with a count of 1 and the batch
\* has returned
C26_Witness ==
    /\ BatchDone
    /\ \E j \in Tasks :
          /\ task[j].video_id = IdA
          /\ task[j].errors = 1
          /\ task[j].inserted = 1
          /\ task[j].outcome.status = "success"
          /\ task[j].outcome.subtitle_count = 1
          /\ \E k \in 1..Len(store) :
                store[k].video_id = IdA /\ store[k].sequence_number = 2

\* C27: the sequence_number of every stored row is the 0-based position of its event in
\* the events list of the fetched track, the events without segments or text counted:
\* the event at that position has the row's text and start offset. The sequence numbers
\* of one video's rows increase strictly in the order the rows were stored, and need not
\* be contiguous.
C27_SequenceNumberIsPosition ==
    LET rows == store \o txn
    IN  /\ \A k \in 1..Len(rows) :
              /\ rows[k].sequence_number \in 0..(Len(TrackOf(rows[k].video_id)) - 1)
              /\ EventText(TrackOf(rows[k].video_id)[rows[k].sequence_number + 1])
                    = rows[k].japanese_text
              /\ OffsetMs(TrackOf(rows[k].video_id)[rows[k].sequence_number + 1], "tStartMs")
                    * 1000 = rows[k].start_time
        /\ \A k, n \in 1..Len(rows) :
              (k < n /\ rows[k].video_id = rows[n].video_id)
                 => rows[k].sequence_number < rows[n].sequence_number

\* C27 witness: the rows of the three-event track are stored with the sequence numbers
\* 0 and 2, the blank event between them having taken the number 1
C27_Witness ==
    \E k \in 1..(Len(store) - 1) :
        /\ store[k].video_id = IdA /\ store[k].sequence_number = 0
        /\ store[k + 1].video_id = IdA /\ store[k + 1].sequence_number = 2

\* C28: after a batch has completed, total_subtitles equals the number of stored rows
\* that belong to the videos whose outcome in the batch is success or skipped, for every
\* reference list, lists naming a video more than once included.
C28_TotalIsStoredRows ==
    BatchDone
       => results.total_subtitles
             = Cardinality({k \in 1..Len(store) :
                               \E j \in Tasks :
                                   /\ task[j].outcome.status \in {"success", "skipped"}
                                   /\ task[j].video_id = store[k].video_id})

\* C29: for every base reference without a time marker and all times a and b,
\* create_timestamp_url applied with a and then with b gives the reference it gives
\* when applied to the base with b alone: only the time marker changes.
C29_RetargetEqualsBuild ==
    (Len(replay.times) = 2 /\ TimeMarkers(replay.base) = {})
        => replay.url = create_timestamp_url(replay.base, replay.times[2])

\* C30: for every stored row r and every window, get_video_context(r.video_id,
\* r.start_time, window) contains r with is_target set: the context of a search hit
\* holds and flags the hit itself, a window of 0 included.
C30_HitIsInItsContext ==
    query.op = "context"
       => \A k \in 1..Len(store) :
             (store[k].video_id = query.video_id /\ store[k].start_time = query.target_time)
                => \E p \in 1..Len(query.result) :
                      /\ ItemIsOf(query.result[p], store[k])
                      /\ query.result[p].is_target

\* C30 witness: the context of a stored row at its own start_time with a window of 0,
\* next to a row of the same video half a second later, is that row alone, flagged
C30_Witness ==
    /\ query.op = "context"
    /\ query.context_seconds = 0
    /\ Len(store) >= 2
    /\ \E k, n \in 1..Len(store) :
          /\ store[k].video_id = query.video_id
          /\ store[k].start_time = query.target_time
          /\ store[n].video_id = query.video_id
          /\ store[n].start_time # query.target_time
          /\ Len(query.result) = 1
          /\ ItemIsOf(query.result[1], store[k])
          /\ query.result[1].is_target

=============================================================================
